---- MODULE Spec2Model ----
(***************************************************************************)
(* The TCP endpoint of ethox: the connection table (port table plus        *)
(* slotmap of connection slots) of ethox/src/layer/tcp/endpoint.rs and the *)
(* operations that create, look up, move and drop connections.             *)
(***************************************************************************)
EXTENDS Integers, Sequences, FiniteSets, TLC

(***************************************************************************)
(* Bounds of the model.                                                    *)
(***************************************************************************)
MaxRemoves == 2
\* The clock of the poll loop stops at MaxTime milliseconds.
MaxTime == 1000
\* A peer sends at most MaxBytes bytes of sequence space to a connection.
MaxBytes == 201

\* The capacities of the borrowed storage an endpoint is constructed over.
PortCapacities == {1, 2}
SlotCapacities == {1, 2}

(***************************************************************************)
(* Addresses, ports and four-tuples.  IpAddress::Unspecified is 0 and      *)
(* orders before every other address.                                      *)
(***************************************************************************)
Unspecified == 0
LocalAddrs == {1}
LocalPorts == {80, 81}
Peers == {[addr |-> 2, port |-> 7]}

\* The tuples an arriving segment can carry: a real peer address and port.
SegmentTuples ==
  {[local |-> l, remote |-> r.addr, local_port |-> lp, remote_port |-> r.port] :
     l \in LocalAddrs, lp \in LocalPorts, r \in Peers}

\* derive(PartialOrd, Ord) on FourTuple: lexicographic in field order.
TupleLess(a, b) ==
  \/ a.local < b.local
  \/ a.local = b.local /\ a.remote < b.remote
  \/ a.local = b.local /\ a.remote = b.remote /\ a.local_port < b.local_port
  \/ a.local = b.local /\ a.remote = b.remote /\ a.local_port = b.local_port
       /\ a.remote_port < b.remote_port

\* The tuple under which listen(ip, port) registers.
ListenTuple(ip, port) ==
  [local |-> ip, remote |-> Unspecified, local_port |-> port, remote_port |-> 0]

\* The tuples of the model: those of listeners and of connections to a peer.
FourTuple ==
  {ListenTuple(ip, port) : ip \in LocalAddrs, port \in LocalPorts}
    \cup SegmentTuples

(***************************************************************************)
(* Keys.  A slotmap key is an index with the generation of the slot at the *)
(* time it was reserved.  None stands for Option::None.                    *)
(***************************************************************************)
None == [idx |-> 0, gen |-> 0]
Keys == [idx : UNION {1..n : n \in SlotCapacities}, gen : 0..MaxRemoves]

States == {"Closed", "Listen", "SynSent", "SynReceived", "Established"}

VARIABLES ports, states, port_capacity, issued, removed, panicked,
          inner, end, aborted, misused, tracked, stack, result, called,
          neighbors, neighbor_capacity, routes, nic, transmitted,
          tcbs, now, emitted

endpoint_vars == <<ports, states, port_capacity, issued, removed, panicked>>
partial_vars == <<inner, end, aborted, misused, tracked, stack, result, called>>
ip_vars == <<neighbors, neighbor_capacity, routes, nic, transmitted>>
tcp_vars == <<tcbs, now, emitted>>
vars == <<endpoint_vars, partial_vars, ip_vars, tcp_vars>>

(***************************************************************************)
(* The ordered map FourTuple -> Key: a sorted sequence of pairs in a       *)
(* borrowed array of port_capacity elements.                               *)
(***************************************************************************)
MapIndex(m, k) ==
  IF \E i \in 1..Len(m) : m[i].key = k
  THEN CHOOSE i \in 1..Len(m) : m[i].key = k
  ELSE 0

MapContains(m, k) == MapIndex(m, k) # 0

MapGet(m, k) == IF MapContains(m, k) THEN m[MapIndex(m, k)].value ELSE None

\* entry(k).occupied() is Some
EntryOccupied(m, k) == MapContains(m, k)

\* entry(k).vacant() is Some: the key is absent and the array has room for
\* it; for a full map it is None
EntryVacant(m, k) == ~MapContains(m, k) /\ Len(m) < port_capacity

\* VacantEntry::insert: the pair goes to its place in the order
VacantInsert(m, k, v) ==
  LET below == Cardinality({i \in 1..Len(m) : TupleLess(m[i].key, k)})
  IN  SubSeq(m, 1, below) \o <<[key |-> k, value |-> v]>>
        \o SubSeq(m, below + 1, Len(m))

\* OccupiedEntry::remove, and Entry::remove which does nothing when vacant
EntryRemove(m, k) ==
  LET i == MapIndex(m, k)
  IN  IF i = 0 THEN m ELSE SubSeq(m, 1, i - 1) \o SubSeq(m, i + 1, Len(m))

(***************************************************************************)
(* The slotmap: every slot has a generation, bumped when it is freed.      *)
(***************************************************************************)
SlotLive(s, key) ==
  /\ key.idx \in DOMAIN s
  /\ s[key.idx].live
  /\ s[key.idx].gen = key.gen

\* the holes reserve() may hand out; 0 when the slotmap is full
ReserveChoices(s) ==
  IF \E i \in DOMAIN s : ~s[i].live
  THEN {i \in DOMAIN s : ~s[i].live}
  ELSE {0}

SlotMapRemove(s, key) ==
  IF SlotLive(s, key)
  THEN [s EXCEPT ![key.idx].live = FALSE, ![key.idx].gen = @ + 1]
  ELSE s

(***************************************************************************)
(* Connections.                                                            *)
(***************************************************************************)
create_connection == [current |-> "Closed", previous |-> "Closed"]

change_state(c, new) == [current |-> new, previous |-> c.current]


\* Slot::default(), the content of a slot that was never reserved
DefaultSlot ==
  [addr |-> [local |-> Unspecified, remote |-> Unspecified,
             local_port |-> 0, remote_port |-> 0],
   connection |-> [current |-> "Closed", previous |-> "Closed"]]

\* Option<T>
Absent == [some |-> FALSE]
Some(key, slot) == [some |-> TRUE, key |-> key, slot |-> slot]

(***************************************************************************)
(* Endpoint: lookups.                                                      *)
(***************************************************************************)
get(s, index) ==
  IF SlotLive(s, index) THEN Some(index, s[index.idx].slot) ELSE Absent

get_mut(s, index) ==
  IF SlotLive(s, index) THEN Some(index, s[index.idx].slot) ELSE Absent

entry(s, index) ==
  LET slot == get_mut(s, index)
  IN  IF slot.some THEN Some(index, slot.slot) ELSE Absent

key_from_tuple(p, tuple) == MapGet(p, tuple)

entry_from_tuple(p, s, tuple) ==
  LET key == key_from_tuple(p, tuple)
  IN  IF key = None THEN Absent ELSE entry(s, key)

\* find_tuple without the fallback to a listener
find_tuple_exact_only(p, s, tuple) == entry_from_tuple(p, s, tuple)

\* find_tuple that asks for a listener first
find_tuple_listener_first(p, s, tuple) ==
  IF EntryOccupied(p, ListenTuple(tuple.local, tuple.local_port))
  THEN entry_from_tuple(p, s, ListenTuple(tuple.local, tuple.local_port))
  ELSE entry_from_tuple(p, s, tuple)

find_tuple(p, s, tuple) ==
  IF EntryOccupied(p, tuple)
  THEN entry_from_tuple(p, s, tuple)
  ELSE entry_from_tuple(p, s, ListenTuple(tuple.local, tuple.local_port))

\* FIXME of the source: a suitable port is not searched for, Some(80) it is
source_port(p, ip) == [some |-> TRUE, port |-> 80]

(***************************************************************************)
(* Endpoint: remove, listen, open.  Each operator gives the port table and *)
(* the slotmap after the call, and what the call returned.                 *)
(***************************************************************************)
\* remove that frees whatever lives at the index of the key
remove_ignoring_generation(p, s, index) ==
  IF ~(index.idx \in DOMAIN s /\ s[index.idx].live)
  THEN [ports |-> p, states |-> s, emitted |-> "none"]
  ELSE LET closed == [s EXCEPT ![index.idx].slot.connection =
                                  change_state(@, "Closed")]
           addr == s[index.idx].slot.addr
       IN  [ports |-> EntryRemove(p, addr),
            states |-> SlotMapRemove(closed, [idx |-> index.idx,
                                              gen |-> s[index.idx].gen]),
            emitted |-> "none"]

\* remove that unmaps the tuple and forgets to free the slot
remove_keeps_slot(p, s, index) ==
  LET found == get_mut(s, index)
  IN  IF ~found.some
      THEN [ports |-> p, states |-> s, emitted |-> "none"]
      ELSE [ports |-> EntryRemove(p, found.slot.addr),
            states |-> [s EXCEPT ![index.idx].slot.connection =
                                    change_state(@, "Closed")],
            emitted |-> "none"]

\* remove that frees the slot and leaves the tuple in the port table
remove_keeps_port(p, s, index) ==
  LET found == get_mut(s, index)
  IN  IF ~found.some
      THEN [ports |-> p, states |-> s, emitted |-> "none"]
      ELSE [ports |-> p,
            states |-> SlotMapRemove(
                         [s EXCEPT ![index.idx].slot.connection =
                                      change_state(@, "Closed")], index),
            emitted |-> "none"]

\* The call touches no packet buffer: nothing is put on the wire.
remove(p, s, index) ==
  LET found == get_mut(s, index)
  IN  IF ~found.some
      THEN [ports |-> p, states |-> s, emitted |-> "none"]
      ELSE LET closed == [s EXCEPT ![index.idx].slot.connection =
                                      change_state(@, "Closed")]
               addr == found.slot.addr
           IN  [ports |-> EntryRemove(p, addr),
                states |-> SlotMapRemove(closed, index),
                emitted |-> "none"]

\* create_state that reserves the slot before it looks at the port table
create_state_reserve_first(p, s, addr, hole) ==
  IF hole = 0
  THEN [ports |-> p, states |-> s, ret |-> None]
  ELSE LET reserved == [s EXCEPT ![hole].live = TRUE]
       IN  IF ~EntryVacant(p, addr)
           THEN [ports |-> p, states |-> reserved, ret |-> None]
           ELSE [ports |-> VacantInsert(p, addr, [idx |-> hole, gen |-> s[hole].gen]),
                 states |-> [reserved EXCEPT
                               ![hole].slot = [addr |-> addr,
                                               connection |-> create_connection]],
                 ret |-> [idx |-> hole, gen |-> s[hole].gen]]

\* create_state that only asks whether the port table has room
create_state_no_dup_check(p, s, addr, hole) ==
  IF ~(Len(p) < port_capacity) \/ hole = 0
  THEN [ports |-> p, states |-> s, ret |-> None]
  ELSE [ports |-> VacantInsert(p, addr, [idx |-> hole, gen |-> s[hole].gen]),
        states |-> [s EXCEPT ![hole].live = TRUE,
                             ![hole].slot = [addr |-> addr,
                                             connection |-> create_connection]],
        ret |-> [idx |-> hole, gen |-> s[hole].gen]]

\* create_state that only asks whether the tuple is taken
create_state_any_room(p, s, addr, hole) ==
  IF MapContains(p, addr) \/ hole = 0
  THEN [ports |-> p, states |-> s, ret |-> None]
  ELSE [ports |-> VacantInsert(p, addr, [idx |-> hole, gen |-> s[hole].gen]),
        states |-> [s EXCEPT ![hole].live = TRUE,
                             ![hole].slot = [addr |-> addr,
                                             connection |-> create_connection]],
        ret |-> [idx |-> hole, gen |-> s[hole].gen]]

\* hole is the slot reserve() hands out, 0 when the slotmap is full
create_state(p, s, addr, hole) ==
  LET connection == create_connection
  IN  IF ~EntryVacant(p, addr)
      THEN [ports |-> p, states |-> s, ret |-> None]
      ELSE IF hole = 0
      THEN [ports |-> p, states |-> s, ret |-> None]
      ELSE LET key == [idx |-> hole, gen |-> s[hole].gen]
           IN  [ports |-> VacantInsert(p, addr, key),
                states |-> [s EXCEPT ![hole].live = TRUE,
                                     ![hole].slot = [addr |-> addr,
                                                     connection |-> connection]],
                ret |-> key]

\* listen that leaves the new connection Closed
listen_stays_closed(p, s, ip, port, hole) ==
  create_state(p, s, ListenTuple(ip, port), hole)

listen(p, s, ip, port, hole) ==
  LET r == create_state(p, s, ListenTuple(ip, port), hole)
  IN  IF r.ret = None
      THEN r
      ELSE [r EXCEPT !.states[r.ret.idx].slot.connection.current = "Listen"]

\* open that marks the connection SynSent before any SYN was sent
open_sets_syn_sent(p, s, tuple, hole) ==
  LET r == create_state(p, s, tuple, hole)
  IN  IF r.ret = None
      THEN r
      ELSE [r EXCEPT !.states[r.ret.idx].slot.connection =
                        change_state(@, "SynSent")]

open(p, s, tuple, hole) == create_state(p, s, tuple, hole)

(***************************************************************************)
(* EntryKey::set_four_tuple and PortMap::remap.  A panic leaves the port   *)
(* table as it was when the unwrap failed.                                 *)
(***************************************************************************)
\* remap that inserts the new tuple and leaves the old one mapped
remap_keeps_old(p, old, new) ==
  IF ~EntryOccupied(p, old)
  THEN [ports |-> p, panic |-> TRUE]
  ELSE IF MapContains(p, new)
  THEN [ports |-> EntryRemove(p, old), panic |-> TRUE]
  ELSE [ports |-> VacantInsert(p, new, MapGet(p, old)), panic |-> FALSE]

\* remap that takes the new tuple over from whoever holds it
remap_overwrites(p, old, new) ==
  IF ~EntryOccupied(p, old)
  THEN [ports |-> p, panic |-> TRUE]
  ELSE LET value == MapGet(p, old)
           without == EntryRemove(EntryRemove(p, old), new)
       IN  [ports |-> VacantInsert(without, new, value), panic |-> FALSE]

remap(p, old, new) ==
  IF ~EntryOccupied(p, old)
  THEN [ports |-> p, panic |-> TRUE]
  ELSE LET value == MapGet(p, old)
           without == EntryRemove(p, old)
       IN  IF ~EntryVacant(without, new)
           THEN [ports |-> without, panic |-> TRUE]
           ELSE [ports |-> VacantInsert(without, new, value), panic |-> FALSE]

\* set_four_tuple that remaps the port table and keeps the address in the slot
set_four_tuple_keeps_addr(p, s, key, new) ==
  LET r == remap(p, s[key.idx].slot.addr, new)
  IN  [ports |-> r.ports, states |-> s, panic |-> r.panic]

set_four_tuple(p, s, key, new) ==
  LET r == remap(p, s[key.idx].slot.addr, new)
  IN  IF r.panic
      THEN [ports |-> r.ports, states |-> s, panic |-> TRUE]
      ELSE [ports |-> r.ports,
            states |-> [s EXCEPT ![key.idx].slot.addr = new],
            panic |-> FALSE]

(***************************************************************************)
(* The segments of the model carry one of these flag combinations.         *)
(***************************************************************************)
Flags == {"SYN", "SYNACK", "ACK", "RST"}

(***************************************************************************)
(* The receive path of a connection: the lookup of the segment's tuple,    *)
(* then the transition of the connection it was delivered to.              *)
(***************************************************************************)
arrives(p, s, tuple, flags) ==
  LET e == find_tuple(p, s, tuple)
      quiet == [ports |-> p, states |-> s, emitted |-> "none",
                found |-> IF e.some THEN e.key ELSE None]
      to(new, out) ==
        [quiet EXCEPT !.states[e.key.idx].slot.connection = change_state(@, new),
                      !.emitted = out]
  IN  IF ~e.some
      THEN [quiet EXCEPT !.emitted = IF flags = "RST" THEN "none" ELSE "RST"]
      ELSE CASE e.slot.connection.current = "Closed" ->
                  [quiet EXCEPT !.emitted = IF flags = "RST" THEN "none" ELSE "RST"]
             [] e.slot.connection.current = "Listen" ->
                  IF flags = "SYN"
                  THEN LET moved == set_four_tuple(p, s, e.key, tuple)
                       IN  [ports |-> moved.ports,
                            states |-> [moved.states EXCEPT
                                          ![e.key.idx].slot.connection =
                                             change_state(@, "SynReceived")],
                            emitted |-> "SYNACK",
                            found |-> e.key]
                  ELSE quiet
             [] e.slot.connection.current = "SynSent" ->
                  CASE flags = "SYNACK" -> to("Established", "ACK")
                    [] flags = "SYN" -> to("SynReceived", "SYNACK")
                    [] flags = "RST" -> to("Closed", "none")
                    [] OTHER -> quiet
             [] e.slot.connection.current = "SynReceived" ->
                  CASE flags = "ACK" -> to("Established", "none")
                    [] flags = "RST" -> to("Closed", "none")
                    [] OTHER -> quiet
             [] OTHER ->
                  IF flags = "RST" THEN to("Closed", "none") ELSE quiet

\* The send path emits the SYN of an actively opened connection.
send_syn(s, key) ==
  [s EXCEPT ![key.idx].slot.connection = change_state(@, "SynSent")]

(***************************************************************************)
(* managed::Slice, the implementation of src/managed.rs: a container that  *)
(* is a single inline value, an allocated vector or a borrowed slice.      *)
(***************************************************************************)
One(t) == [mode |-> "One", one |-> t]
Many(vec) == [mode |-> "Many", many |-> vec]
Borrowed(slice) == [mode |-> "Borrowed", borrowed |-> slice]

NoneT == [some |-> FALSE, value |-> 0]
SomeT(t) == [some |-> TRUE, value |-> t]

from_T(t) == One(t)
from_Option(t) == IF t.some THEN One(t.value) ELSE Borrowed(<<>>)
from_Vec(t) == Many(t)
from_slice(t) == Borrowed(t)

\* slice::from_ref: the one-element slice over a single value
from_ref(t) == <<t>>

\* deref that shows a single value as no element at all
deref_hides_one(s) ==
  CASE s.mode = "One" -> <<>>
    [] s.mode = "Many" -> s.many
    [] s.mode = "Borrowed" -> s.borrowed

deref(s) ==
  CASE s.mode = "One" -> from_ref(s.one)
    [] s.mode = "Many" -> s.many
    [] s.mode = "Borrowed" -> s.borrowed

deref_mut(s) ==
  CASE s.mode = "One" -> from_ref(s.one)
    [] s.mode = "Many" -> s.many
    [] s.mode = "Borrowed" -> s.borrowed

\* the effect of writing the elements of view through the slice of deref_mut
store(s, view) ==
  CASE s.mode = "One" -> [s EXCEPT !.one = view[1]]
    [] s.mode = "Many" -> [s EXCEPT !.many = view]
    [] s.mode = "Borrowed" -> [s EXCEPT !.borrowed = view]

(***************************************************************************)
(* managed::Slice, the implementation of ethox/src/managed/slice.rs.       *)
(***************************************************************************)
empty == Borrowed(<<>>)
one_default == One(0)

as_slice(s) ==
  CASE s.mode = "One" -> from_ref(s.one)
    [] s.mode = "Many" -> s.many
    [] s.mode = "Borrowed" -> s.borrowed

as_mut_slice(s) ==
  CASE s.mode = "One" -> from_ref(s.one)
    [] s.mode = "Many" -> s.many
    [] s.mode = "Borrowed" -> s.borrowed

\* the effect of writing the elements of view through the slice of as_mut_slice
Slice_store(s, view) ==
  CASE s.mode = "One" -> [s EXCEPT !.one = view[1]]
    [] s.mode = "Many" -> [s EXCEPT !.many = view]
    [] s.mode = "Borrowed" -> [s EXCEPT !.borrowed = view]

Slice_from_T(t) == One(t)
Slice_from_Option(t) == IF t.some THEN One(t.value) ELSE Borrowed(<<>>)
Slice_from_Vec(t) == Many(t)
Slice_from_slice(t) == Borrowed(t)
Slice_deref(s) == as_slice(s)
Slice_deref_mut(s) == as_mut_slice(s)

(***************************************************************************)
(* usize arithmetic, at a width that keeps the wrap-around within reach.   *)
(***************************************************************************)
UsizeModulus == 65536
UsizeMax == UsizeModulus - 1

wrapping_sub(a, b) == (a - b + UsizeModulus) % UsizeModulus
checked_add(a, b) == IF a + b > UsizeMax THEN NoneT ELSE SomeT(a + b)
checked_sub(a, b) == IF a < b THEN NoneT ELSE SomeT(a - b)

\* [T]::get_mut(from..to), both counted from 0: absent for a range that is
\* reversed or reaches over the end
range_in_bounds(view, from, to) == from <= to /\ to <= Len(view)

\* [T]::rotate_left(mid) asserts mid <= len
rotate_left_panics(slice, mid) == mid > Len(slice)
rotate_left(slice, mid) ==
  SubSeq(slice, mid + 1, Len(slice)) \o SubSeq(slice, 1, mid)

\* [T]::rotate_right(k) asserts k <= len
rotate_right_panics(slice, k) == k > Len(slice)
rotate_right(slice, k) ==
  SubSeq(slice, Len(slice) - k + 1, Len(slice)) \o SubSeq(slice, 1, Len(slice) - k)

\* view with the elements from..to (counted from 0, to exclusive) replaced
splice(view, from, to, part) ==
  SubSeq(view, 1, from) \o part \o SubSeq(view, to + 1, Len(view))

(***************************************************************************)
(* managed::Partial: a container and the length of its part in use.  Each  *)
(* method takes the view p = [inner, end] and gives the view after the     *)
(* call, the element returned (its index in the container) and whether the *)
(* call panicked.                                                          *)
(***************************************************************************)
NoElement == [some |-> FALSE, at |-> 0]
Element(i) == [some |-> TRUE, at |-> i]

Returned(p, ret) == [inner |-> p.inner, end |-> p.end, ret |-> ret, panic |-> FALSE]
Panicked(p) == [inner |-> p.inner, end |-> p.end, ret |-> NoElement, panic |-> TRUE]

Partial_new(container) == [inner |-> container, end |-> 0]
new_full(container) == [inner |-> container, end |-> Len(deref(container))]

capacity(p) == Len(deref(p.inner))
len(p) == p.end

set_len_unchecked(p, n) == [p EXCEPT !.end = n]

\* wraps tells whether the build wraps on overflow or panics
inc(p, wraps) ==
  IF p.end + 1 > UsizeMax
  THEN IF wraps THEN Returned([p EXCEPT !.end = 0], NoElement) ELSE Panicked(p)
  ELSE Returned([p EXCEPT !.end = p.end + 1], NoElement)

dec(p, wraps) ==
  IF p.end < 1
  THEN IF wraps THEN Returned([p EXCEPT !.end = UsizeMax], NoElement) ELSE Panicked(p)
  ELSE Returned([p EXCEPT !.end = p.end - 1], NoElement)

\* &inner[..end] panics when end is over the length of the container
Partial_as_slice_panics(p) == p.end > Len(deref(p.inner))
Partial_as_slice(p) == SubSeq(deref(p.inner), 1, p.end)

Partial_as_mut_slice_panics(p) == p.end > Len(deref_mut(p.inner))
Partial_as_mut_slice(p) == SubSeq(deref_mut(p.inner), 1, p.end)

\* view[i] through Deref: the index is taken in as_slice()
Partial_index_panics(p, i) == Partial_as_slice_panics(p) \/ i >= Len(Partial_as_slice(p))

\* get and get_mut ask the container
Partial_get(p, i) ==
  IF i < Len(deref(p.inner)) THEN [some |-> TRUE, at |-> i] ELSE [some |-> FALSE, at |-> 0]

Partial_get_mut(p, i) ==
  IF i < Len(deref_mut(p.inner)) THEN [some |-> TRUE, at |-> i] ELSE [some |-> FALSE, at |-> 0]

\* insert_at that takes the new length without asking the container
insert_at_unbounded(p, pos) ==
  LET new_end == checked_add(p.end, 1)
      view == deref_mut(p.inner)
  IN  IF ~new_end.some THEN Returned(p, NoElement)
      ELSE IF ~range_in_bounds(view, pos, new_end.value)
      THEN Returned([p EXCEPT !.end = new_end.value], NoElement)
      ELSE LET part == SubSeq(view, pos + 1, new_end.value)
               rotation == wrapping_sub(p.end, pos)
           IN  IF rotate_left_panics(part, rotation) THEN Panicked(p)
               ELSE Returned([inner |-> store(p.inner,
                                  splice(view, pos, new_end.value,
                                         rotate_left(part, rotation))),
                              end |-> new_end.value],
                             Element(pos))

\* insert_at that exchanges the element at pos with the one behind the view
insert_at_swaps(p, pos) ==
  LET rotation == wrapping_sub(p.end, pos)
      new_end == checked_add(p.end, 1)
      view == deref_mut(p.inner)
  IN  IF ~new_end.some THEN Returned(p, NoElement)
      ELSE IF ~range_in_bounds(view, pos, new_end.value) THEN Returned(p, NoElement)
      ELSE IF rotate_left_panics(SubSeq(view, pos + 1, new_end.value), rotation)
      THEN Panicked(p)
      ELSE Returned([inner |-> store(p.inner,
                         [view EXCEPT ![pos + 1] = view[new_end.value],
                                      ![new_end.value] = view[pos + 1]]),
                     end |-> new_end.value],
                    Element(pos))

insert_at(p, pos) ==
  LET rotation == wrapping_sub(p.end, pos)
      new_end == checked_add(p.end, 1)
      view == deref_mut(p.inner)
  IN  IF ~new_end.some THEN Returned(p, NoElement)
      ELSE IF ~range_in_bounds(view, pos, new_end.value) THEN Returned(p, NoElement)
      ELSE LET part == SubSeq(view, pos + 1, new_end.value)
           IN  IF rotate_left_panics(part, rotation) THEN Panicked(p)
               ELSE Returned([inner |-> store(p.inner,
                                  splice(view, pos, new_end.value,
                                         rotate_left(part, rotation))),
                              end |-> new_end.value],
                             Element(pos))

push(p) == insert_at(p, p.end)

\* remove_at that fills the gap with the last element of the view
remove_at_swaps(p, pos) ==
  LET new_end == checked_sub(p.end, 1)
      view == deref_mut(p.inner)
  IN  IF ~new_end.some THEN Returned(p, NoElement)
      ELSE IF ~checked_sub(new_end.value, pos).some THEN Returned(p, NoElement)
      ELSE IF ~range_in_bounds(view, pos, p.end) THEN Returned(p, NoElement)
      ELSE Returned([inner |-> store(p.inner,
                         [view EXCEPT ![pos + 1] = view[p.end],
                                      ![p.end] = view[pos + 1]]),
                     end |-> new_end.value],
                    Element(new_end.value))

remove_at(p, pos) ==
  LET new_end == checked_sub(p.end, 1)
      view == deref_mut(p.inner)
  IN  IF ~new_end.some THEN Returned(p, NoElement)
      ELSE LET rotation == checked_sub(new_end.value, pos)
           IN  IF ~rotation.some THEN Returned(p, NoElement)
               ELSE IF ~range_in_bounds(view, pos, p.end) THEN Returned(p, NoElement)
               ELSE LET part == SubSeq(view, pos + 1, p.end)
                    IN  IF rotate_right_panics(part, rotation.value) THEN Panicked(p)
                        ELSE Returned([inner |-> store(p.inner,
                                           splice(view, pos, p.end,
                                                  rotate_right(part, rotation.value))),
                                       end |-> new_end.value],
                                      Element(new_end.value))

\* pop that takes the first element, as a queue would
pop_first(p) == remove_at(p, 0)

pop(p) == remove_at(p, wrapping_sub(p.end, 1))

\* the value of the element a call returned
read(p, element) == deref(p.inner)[element.at + 1]

\* the view after value is written into the element a call returned
write(p, element, value) ==
  [p EXCEPT !.inner = store(p.inner, [deref_mut(p.inner) EXCEPT ![element.at + 1] = value])]

(***************************************************************************)
(* Payload resizing.  PayloadError and the resize of the container are     *)
(* those of the wire module; layer::Error is the error of the layers.      *)
(***************************************************************************)
Ok == [ok |-> TRUE, err |-> "none"]
NoResult == [ok |-> FALSE, err |-> "none"]

\* the latest call on the view when it was an insert_at or a remove_at that
\* moved elements of the view, with its position
Call(method, pos) == [method |-> method, pos |-> pos]
NoCall == Call("none", 0)
Err(e) == [ok |-> FALSE, err |-> e]

PayloadError_BadSize == "PayloadError::BadSize"

\* From<PayloadError> for layer::Error
Error_from_PayloadError(err) ==
  CASE err = PayloadError_BadSize -> "Error::BadSize"

\* resize of the container: a vector grows when the allocation is granted,
\* a single value or a borrowed slice has only its own length
payload_resize(s, n, granted) ==
  IF n = Len(deref(s)) THEN [inner |-> s, result |-> Ok]
  ELSE IF s.mode = "Many" /\ granted
  THEN [inner |-> Many([i \in 1..n |-> IF i <= Len(s.many) THEN s.many[i] ELSE 0]),
        result |-> Ok]
  ELSE [inner |-> s, result |-> Err(PayloadError_BadSize)]

\* resize that takes the length although the container denied it
resize_ignores_denial(p, n, granted) ==
  IF n <= Len(deref(p.inner))
  THEN [inner |-> p.inner, end |-> n, result |-> Ok]
  ELSE LET r == payload_resize(p.inner, n, granted)
       IN  [inner |-> r.inner, end |-> n, result |-> r.result]

resize(p, n, granted) ==
  IF n <= Len(deref(p.inner))
  THEN [inner |-> p.inner, end |-> n, result |-> Ok]
  ELSE LET r == payload_resize(p.inner, n, granted)
       IN  IF ~r.result.ok
           THEN [inner |-> p.inner, end |-> p.end, result |-> r.result]
           ELSE [inner |-> r.inner, end |-> n, result |-> Ok]


(***************************************************************************)
(* The send path of the ip tests: the constants and the closure of the     *)
(* test simple, and the ip and eth endpoints it drives.  Addresses are     *)
(* sequences of octets.                                                    *)
(***************************************************************************)
v4(a, b, c, d) == <<a, b, c, d>>
IpCidr(address, prefix_len) == [address |-> address, prefix_len |-> prefix_len]

MAC_ADDR_SRC == <<0, 1, 2, 3, 4, 5>>
IP_ADDR_SRC == v4(127, 0, 0, 1)
MAC_ADDR_DST == <<6, 5, 4, 3, 2, 1>>
IP_ADDR_DST == v4(127, 0, 0, 2)
PAYLOAD_BYTES_len == 50
Ipv4Cidr_UNSPECIFIED == IpCidr(v4(0, 0, 0, 0), 0)

\* the ip::Init of simple_send
simple_send_init ==
  [src_mask |-> Ipv4Cidr_UNSPECIFIED,
   dst_addr |-> IP_ADDR_DST,
   payload |-> PAYLOAD_BYTES_len,
   protocol |-> 239]

EthernetHeaderLen == 14
Ipv4HeaderLen == 20

\* prefix lengths are whole octets here
cidr_contains(cidr, address) ==
  \A i \in 1..(cidr.prefix_len \div 8) : cidr.address[i] = address[i]

NoMac == [some |-> FALSE, mac |-> <<>>]
neighbor_lookup(cache, address) ==
  IF \E i \in 1..Len(cache) : cache[i].ip = address
  THEN [some |-> TRUE,
        mac |-> cache[CHOOSE i \in 1..Len(cache) : cache[i].ip = address].mac]
  ELSE NoMac

\* NeighborCache::fill: refresh the entry, or add it, or evict the oldest
neighbor_fill(cache, size, address, mac) ==
  LET others == SelectSeq(cache, LAMBDA n : n.ip # address)
      filled == [ip |-> address, mac |-> mac]
  IN  IF Len(others) < size THEN Append(others, filled)
      ELSE Append(Tail(others), filled)

\* the routes are kept by descending prefix length: the first match is the longest
NoRoute == [some |-> FALSE, next_hop |-> v4(0, 0, 0, 0)]
longest_prefix_route(table, dst_addr) ==
  LET matching == SelectSeq(table, LAMBDA r : cidr_contains(r.cidr, dst_addr))
  IN  IF matching = <<>> THEN NoRoute
      ELSE [some |-> TRUE, next_hop |-> matching[1].via]

routes_insert(table, r) ==
  LET longer == SelectSeq(table, LAMBDA x : x.cidr.prefix_len >= r.cidr.prefix_len)
      shorter == SelectSeq(table, LAMBDA x : x.cidr.prefix_len < r.cidr.prefix_len)
  IN  longer \o <<r>> \o shorter

\* an endpoint that knows no local link
on_link_never(source, dst_addr) == FALSE

\* "No routes necessary for local link": a destination in the source CIDR
\* of the endpoint is reached directly
on_link(source, dst_addr) == cidr_contains(source, dst_addr)

route(source, table, dst_addr) ==
  IF on_link(source, dst_addr)
  THEN [some |-> TRUE, next_hop |-> dst_addr]
  ELSE longest_prefix_route(table, dst_addr)

\* RawPacket::prepare through the ip and the eth layer
prepare(source, table, cache, buffer, init) ==
  LET hop == route(source, table, init.dst_addr)
  IN  IF ~hop.some THEN [ok |-> FALSE, err |-> "Error::Unreachable"]
      ELSE IF ~cidr_contains(init.src_mask, source.address)
      THEN [ok |-> FALSE, err |-> "Error::Illegal"]
      ELSE IF ~neighbor_lookup(cache, hop.next_hop).some
      THEN [ok |-> FALSE, err |-> "Error::Unreachable"]
      ELSE IF EthernetHeaderLen + Ipv4HeaderLen + init.payload > buffer
      THEN [ok |-> FALSE, err |-> "Error::BadSize"]
      ELSE [ok |-> TRUE, err |-> "none",
            frame |-> [src_mac |-> MAC_ADDR_SRC,
                       dst_mac |-> neighbor_lookup(cache, hop.next_hop).mac,
                       src_addr |-> source.address,
                       dst_addr |-> init.dst_addr,
                       payload |-> init.payload]]

NoFrame == [src_mac |-> <<>>, dst_mac |-> <<>>, src_addr |-> <<>>, dst_addr |-> <<>>,
            payload |-> 0]

\* simple_send: prepare, expect, fill the payload, send, expect
simple_send(source, table, cache, buffer, init) ==
  LET prepared == prepare(source, table, cache, buffer, init)
  IN  IF ~prepared.ok
      THEN [panic |-> TRUE, prepare |-> prepared.err, send |-> "none", frame |-> NoFrame]
      ELSE [panic |-> FALSE, prepare |-> "Ok", send |-> "Ok", frame |-> prepared.frame]

\* nic.tx(1, eth.send(ip.send_with(simple_send))): the packets that went out
tx(source, table, cache, buffer, init) ==
  LET handled == simple_send(source, table, cache, buffer, init)
  IN  [panic |-> handled.panic,
       prepare |-> handled.prepare,
       send |-> handled.send,
       frame |-> handled.frame,
       sent |-> IF handled.send = "Ok" THEN 1 ELSE 0]

NoTx == [panic |-> FALSE, prepare |-> "none", send |-> "none", frame |-> NoFrame,
         sent |-> 0]


(***************************************************************************)
(* TcpSeqNumber: a number modulo 2^32, kept as its upper and lower 16 bits *)
(* so that the wrap-around is computed and not assumed.                    *)
(***************************************************************************)
Half == 65536
TcpSeqNumber(hi, lo) == <<hi, lo>>
TcpSeqNumber_default == TcpSeqNumber(0, 0)

\* a + n modulo 2^32, for 0 <= n < 2^31
seq_add(a, n) ==
  LET lo == a[2] + (n % Half)
      hi == a[1] + (n \div Half) + (lo \div Half)
  IN  TcpSeqNumber(hi % Half, lo % Half)

\* a - b modulo 2^32
seq_sub(a, b) ==
  LET lo == a[2] - b[2]
      borrow == IF lo < 0 THEN 1 ELSE 0
      hi == a[1] - b[1] - borrow
  IN  TcpSeqNumber((hi + Half) % Half, (lo + Half) % Half)

\* a - b read as a signed 32 bit number is negative
seq_lt(a, b) == seq_sub(a, b)[1] >= Half \div 2
seq_le(a, b) == a = b \/ seq_lt(a, b)

(***************************************************************************)
(* The generator of initial sequence numbers: a keyed hash of the tuple    *)
(* plus the time in units of 4 microseconds.  The hash is a fixed function *)
(* put in its place.                                                       *)
(***************************************************************************)
IsnKeys == {0, 1}
IsnTicksPerMilli == 250

SipHash(key, id) ==
  TcpSeqNumber(Half - 1,
               (64800 + key + 3 * id.local + 5 * id.remote
                  + 7 * id.local_port + 11 * id.remote_port) % Half)

get_isn(key, id, time) == seq_add(SipHash(key, id), IsnTicksPerMilli * time)

\* Endpoint::initial_seq_num
initial_seq_num(isn_generator, id, time) == get_isn(isn_generator, id, time)

\* EntryKey::initial_seq_num that hashes the tuple of the listener
EntryKey_initial_seq_num_of_listener(isn, s, key, time) ==
  get_isn(isn, ListenTuple(s[key.idx].slot.addr.local, s[key.idx].slot.addr.local_port),
          time)

\* EntryKey::initial_seq_num: key_in_slot is the tuple stored in the slot
EntryKey_initial_seq_num(isn, s, key, time) ==
  get_isn(isn, s[key.idx].slot.addr, time)


(***************************************************************************)
(* The numbers of a connection and the segments of the receive path.  The  *)
(* transitions follow the table of the receive path; the tables of the     *)
(* endpoint are those of the code.                                         *)
(***************************************************************************)
Never == [armed |-> FALSE, at |-> 0]
At(instant) == [armed |-> TRUE, at |-> instant]

\* A connection that acknowledges without a delay.
Connection_without_delay ==
  [ack_timer |-> Never,
   ack_timeout |-> 0,
   send |-> [unacked |-> TcpSeqNumber_default, next |-> TcpSeqNumber_default,
             initial_seq |-> TcpSeqNumber_default],
   recv |-> [next |-> TcpSeqNumber_default, window |-> 0,
             initial_seq |-> TcpSeqNumber_default]]

\* The numbers Endpoint::create_connection gives a fresh connection.
Connection ==
  [ack_timer |-> Never,
   ack_timeout |-> 500,
   send |-> [unacked |-> TcpSeqNumber_default, next |-> TcpSeqNumber_default,
             initial_seq |-> TcpSeqNumber_default],
   recv |-> [next |-> TcpSeqNumber_default, window |-> 0,
             initial_seq |-> TcpSeqNumber_default]]

\* The key of the generator the endpoint was constructed with.
isn_generator == 0

\* The window a connection offers once its peer is known.
ReceiveWindow == 1000

Segment(flags, seq, ack, length) ==
  [flags |-> flags, seq |-> seq, ack |-> ack, len |-> length]
NoSegment == [conn |-> 0, segment |-> Segment("none", TcpSeqNumber_default,
                                               TcpSeqNumber_default, 0)]
Emit(conn, flags, seq, ack) == [conn |-> conn, segment |-> Segment(flags, seq, ack, 0)]

\* recv.next <= seq + len and seq < recv.next + recv.window, modulo 2^32
acceptable(tcb, seg) ==
  /\ seq_le(tcb.recv.next, seq_add(seg.seq, seg.len))
  /\ seq_lt(seg.seq, seq_add(tcb.recv.next, tcb.recv.window))

\* send.unacked <= ack <= send.next, modulo 2^32
ack_valid(tcb, seg) ==
  /\ seq_le(tcb.send.unacked, seg.ack)
  /\ seq_le(seg.ack, tcb.send.next)

\* the acknowledgement of everything received so far
ack_all(conn, tcb) == Emit(conn, "ACK", tcb.send.next, tcb.recv.next)

\* Listen and SYN: the numbers of the connection the listener turns into
syn_received(tcb, seg, iss) ==
  [tcb EXCEPT !.send.initial_seq = iss,
              !.send.unacked = iss,
              !.send.next = seq_add(iss, 1),
              !.recv.initial_seq = seg.seq,
              !.recv.next = seq_add(seg.seq, 1),
              !.recv.window = ReceiveWindow]

\* Established: data that is not at recv.next moves it nevertheless
established_takes_any(conn, tcb, seg, time) ==
  IF seg.len = 0
  THEN [tcb |-> tcb, emitted |-> NoSegment]
  ELSE [tcb |-> [tcb EXCEPT !.recv.next = seq_add(@, seg.len)],
        emitted |-> NoSegment]

\* Established: a segment with flags ACK and len bytes of data
established(conn, tcb, seg, time) ==
  IF ~ack_valid(tcb, seg)
  THEN [tcb |-> tcb, emitted |-> ack_all(conn, tcb)]
  ELSE IF seg.len = 0
  THEN [tcb |-> [tcb EXCEPT !.send.unacked = seg.ack], emitted |-> NoSegment]
  ELSE IF seg.seq # tcb.recv.next
  THEN [tcb |-> tcb, emitted |-> ack_all(conn, tcb)]
  ELSE LET got == [tcb EXCEPT !.recv.next = seq_add(@, seg.len),
                              !.send.unacked = seg.ack]
       IN  IF tcb.ack_timer.armed
           THEN [tcb |-> [got EXCEPT !.ack_timer = Never],
                 emitted |-> ack_all(conn, got)]
           ELSE [tcb |-> [got EXCEPT !.ack_timer = At(time + tcb.ack_timeout)],
                 emitted |-> NoSegment]

\* The receive path with the numbers of the segment: the lookup and the
\* change of state of arrives, then the numbers of the connection.
tcp_arrives(p, s, t, tuple, seg, time) ==
  LET e == find_tuple(p, s, tuple)
      r == arrives(p, s, tuple, seg.flags)
      quiet == [ports |-> p, states |-> s, tcbs |-> t, emitted |-> NoSegment]
      current == IF e.some THEN e.slot.connection.current ELSE "Closed"
      conn == e.key.idx
  IN  CASE e.some /\ current = "Listen" /\ seg.flags = "SYN" ->
             LET iss == EntryKey_initial_seq_num(isn_generator, r.states, e.key, time)
             IN  [ports |-> r.ports, states |-> r.states,
                  tcbs |-> [t EXCEPT ![conn] = syn_received(@, seg, iss)],
                  emitted |-> Emit(conn, "SYNACK", iss, seq_add(seg.seq, 1))]
        [] e.some /\ current = "SynReceived" /\ seg.flags = "ACK" ->
             IF seg.ack = seq_add(t[conn].send.initial_seq, 1)
             THEN [ports |-> r.ports, states |-> r.states,
                   tcbs |-> [t EXCEPT ![conn].send.unacked = seg.ack],
                   emitted |-> NoSegment]
             ELSE quiet
        [] e.some /\ current = "Established" /\ seg.flags = "ACK" ->
             LET did == established(conn, t[conn], seg, time)
             IN  [ports |-> p, states |-> s,
                  tcbs |-> [t EXCEPT ![conn] = did.tcb],
                  emitted |-> did.emitted]
        [] OTHER ->
             [ports |-> r.ports, states |-> r.states, tcbs |-> t,
              emitted |-> IF r.emitted = "none" THEN NoSegment
                          ELSE Emit(0, r.emitted, TcpSeqNumber_default,
                                    seq_add(seg.seq, seg.len))]

\* One pass of the poll loop over the timer of a connection.
timer_pass(conn, tcb, time) ==
  IF tcb.ack_timer.armed /\ tcb.ack_timer.at <= time
  THEN [tcb |-> [tcb EXCEPT !.ack_timer = Never], emitted |-> ack_all(conn, tcb)]
  ELSE [tcb |-> tcb, emitted |-> NoSegment]


(***************************************************************************)
(* The state machine.                                                      *)
(***************************************************************************)
Init ==
  /\ ports = <<>>
  /\ port_capacity \in PortCapacities
  /\ \E n \in SlotCapacities :
       states = [i \in 1..n |-> [gen |-> 0, live |-> FALSE, slot |-> DefaultSlot]]
  /\ issued = {}
  /\ removed = {}
  /\ panicked = FALSE
  /\ inner = empty
  /\ end = 0
  /\ aborted = FALSE
  /\ misused = FALSE
  /\ tracked = FALSE
  /\ stack = <<>>
  /\ result = NoResult
  /\ called = NoCall
  /\ neighbors = <<>>
  /\ neighbor_capacity = 1
  /\ routes = <<>>
  /\ nic = 1024
  /\ transmitted = NoTx
  /\ tcbs = <<>>
  /\ now = 0
  /\ emitted = NoSegment

Listen(ip, port) ==
  /\ ~panicked
  /\ \E hole \in ReserveChoices(states) :
       LET r == listen(ports, states, ip, port, hole)
       IN  /\ ports' = r.ports
           /\ states' = r.states
           /\ issued' = IF r.ret = None THEN issued ELSE issued \cup {r.ret}
  /\ UNCHANGED <<port_capacity, removed, panicked>>
  /\ UNCHANGED partial_vars
  /\ UNCHANGED ip_vars
  /\ UNCHANGED tcp_vars

Open(tuple) ==
  /\ ~panicked
  /\ \E hole \in ReserveChoices(states) :
       LET r == open(ports, states, tuple, hole)
       IN  /\ ports' = r.ports
           /\ states' = r.states
           /\ issued' = IF r.ret = None THEN issued ELSE issued \cup {r.ret}
  /\ UNCHANGED <<port_capacity, removed, panicked>>
  /\ UNCHANGED partial_vars
  /\ UNCHANGED ip_vars
  /\ UNCHANGED tcp_vars

\* The slots freed so far: every free bumps one generation.
RECURSIVE Freed(_, _)
Freed(s, n) == IF n = 0 THEN 0 ELSE s[n].gen + Freed(s, n - 1)

\* At most MaxRemoves calls free a slot.
Remove(key) ==
  /\ ~panicked
  /\ key.idx \in DOMAIN states
  /\ SlotLive(states, key) => Freed(states, Len(states)) < MaxRemoves
  /\ LET r == remove(ports, states, key)
     IN  /\ ports' = r.ports
         /\ states' = r.states
  /\ removed' = IF key \in issued THEN removed \cup {key} ELSE removed
  /\ UNCHANGED <<port_capacity, issued, panicked>>
  /\ UNCHANGED partial_vars
  /\ UNCHANGED ip_vars
  /\ UNCHANGED tcp_vars

SetFourTuple(key, new) ==
  /\ ~panicked
  /\ entry(states, key).some
  /\ LET r == set_four_tuple(ports, states, key, new)
     IN  /\ ports' = r.ports
         /\ states' = r.states
         /\ panicked' = r.panic
  /\ UNCHANGED <<port_capacity, issued, removed>>
  /\ UNCHANGED partial_vars
  /\ UNCHANGED ip_vars
  /\ UNCHANGED tcp_vars

SendSyn(key) ==
  /\ ~panicked
  /\ get(states, key).some
  /\ get(states, key).slot.connection.current = "Closed"
  /\ states' = send_syn(states, key)
  /\ UNCHANGED <<ports, port_capacity, issued, removed, panicked>>
  /\ UNCHANGED partial_vars
  /\ UNCHANGED ip_vars
  /\ UNCHANGED tcp_vars

Arrive(tuple, flags) ==
  /\ ~panicked
  /\ LET r == arrives(ports, states, tuple, flags)
     IN  /\ ports' = r.ports
         /\ states' = r.states
  /\ UNCHANGED <<port_capacity, issued, removed, panicked>>
  /\ UNCHANGED partial_vars
  /\ UNCHANGED ip_vars
  /\ UNCHANGED tcp_vars

Next ==
  \/ \E ip \in LocalAddrs, port \in LocalPorts : Listen(ip, port)
  \/ \E tuple \in FourTuple : Open(tuple)
  \/ \E key \in Keys : Remove(key)
  \/ \E key \in Keys, new \in FourTuple : SetFourTuple(key, new)
  \/ \E key \in Keys : SendSyn(key)
  \/ \E tuple \in SegmentTuples, flags \in Flags : Arrive(tuple, flags)

Spec == Init /\ [][Next]_vars

(***************************************************************************)
(* The partial view as a state machine: a view is constructed over some    *)
(* container by new or new_full, and then its methods are called in any    *)
(* order.  misused records a call of inc, dec or set_len_unchecked that    *)
(* the container cannot back; stack is the sequence of the values pushed   *)
(* and not yet popped, kept while only push and pop were called on a view  *)
(* made by new.                                                            *)
(***************************************************************************)
MaxCapacity == 3
Values == {1, 2}
Zeros(n) == [i \in 1..n |-> 0]
Containers ==
  {from_T(0), from_Option(NoneT), from_Option(SomeT(0))}
    \cup {from_Vec(Zeros(n)) : n \in 0..MaxCapacity}
    \cup {from_slice(Zeros(n)) : n \in 0..MaxCapacity}
Positions == 0..(MaxCapacity + 1) \cup {UsizeMax}

View == [inner |-> inner, end |-> end]

PartialInit ==
  /\ ports = <<>>
  /\ port_capacity = 1
  /\ states = <<[gen |-> 0, live |-> FALSE, slot |-> DefaultSlot]>>
  /\ issued = {}
  /\ removed = {}
  /\ panicked = FALSE
  /\ \E container \in Containers, full \in BOOLEAN :
       LET p == IF full THEN new_full(container) ELSE Partial_new(container)
       IN  /\ inner = p.inner
           /\ end = p.end
           /\ tracked = ~full
           /\ called = NoCall
  /\ aborted = FALSE
  /\ misused = FALSE
  /\ stack = <<>>
  /\ result = NoResult
  /\ neighbors = <<>>
  /\ neighbor_capacity = 1
  /\ routes = <<>>
  /\ nic = 1024
  /\ transmitted = NoTx
  /\ tcbs = <<>>
  /\ now = 0
  /\ emitted = NoSegment

Push(value) ==
  /\ ~aborted
  /\ LET r == push(View)
     IN  /\ aborted' = r.panic
         /\ called' = NoCall
         /\ inner' = IF r.ret.some THEN write(r, r.ret, value).inner ELSE r.inner
         /\ end' = r.end
         /\ stack' = IF tracked /\ r.ret.some THEN Append(stack, value) ELSE stack
  /\ UNCHANGED <<misused, tracked, result>>
  /\ UNCHANGED endpoint_vars
  /\ UNCHANGED ip_vars
  /\ UNCHANGED tcp_vars

InsertAt(pos, value) ==
  /\ ~aborted
  /\ LET r == insert_at(View, pos)
     IN  /\ aborted' = r.panic
         /\ called' = IF r.ret.some /\ pos < end THEN Call("insert_at", pos) ELSE NoCall
         /\ inner' = IF r.ret.some THEN write(r, r.ret, value).inner ELSE r.inner
         /\ end' = r.end
  /\ tracked' = FALSE
  /\ stack' = <<>>
  /\ UNCHANGED <<misused, result>>
  /\ UNCHANGED endpoint_vars
  /\ UNCHANGED ip_vars
  /\ UNCHANGED tcp_vars

Pop ==
  /\ ~aborted
  /\ LET r == pop(View)
     IN  /\ aborted' = r.panic
         /\ called' = NoCall
         /\ inner' = r.inner
         /\ end' = r.end
         /\ stack' = IF tracked /\ r.ret.some
                     THEN SubSeq(stack, 1, Len(stack) - 1) ELSE stack
  /\ UNCHANGED <<misused, tracked, result>>
  /\ UNCHANGED endpoint_vars
  /\ UNCHANGED ip_vars
  /\ UNCHANGED tcp_vars

RemoveAt(pos) ==
  /\ ~aborted
  /\ LET r == remove_at(View, pos)
     IN  /\ aborted' = r.panic
         /\ called' = IF r.ret.some /\ pos + 1 < end THEN Call("remove_at", pos) ELSE NoCall
         /\ inner' = r.inner
         /\ end' = r.end
  /\ tracked' = FALSE
  /\ stack' = <<>>
  /\ UNCHANGED <<misused, result>>
  /\ UNCHANGED endpoint_vars
  /\ UNCHANGED ip_vars
  /\ UNCHANGED tcp_vars

Inc ==
  /\ ~aborted
  /\ end <= MaxCapacity \/ end = UsizeMax
  /\ \E wraps \in BOOLEAN :
       LET r == inc(View, wraps)
       IN  /\ aborted' = r.panic
           /\ end' = r.end
  /\ misused' = (misused \/ end + 1 > capacity(View))
  /\ called' = NoCall
  /\ tracked' = FALSE
  /\ stack' = <<>>
  /\ UNCHANGED <<inner, result>>
  /\ UNCHANGED endpoint_vars
  /\ UNCHANGED ip_vars
  /\ UNCHANGED tcp_vars

Dec ==
  /\ ~aborted
  /\ end <= MaxCapacity + 1
  /\ \E wraps \in BOOLEAN :
       LET r == dec(View, wraps)
       IN  /\ aborted' = r.panic
           /\ end' = r.end
  /\ misused' = (misused \/ end < 1)
  /\ called' = NoCall
  /\ tracked' = FALSE
  /\ stack' = <<>>
  /\ UNCHANGED <<inner, result>>
  /\ UNCHANGED endpoint_vars
  /\ UNCHANGED ip_vars
  /\ UNCHANGED tcp_vars

SetLenUnchecked(n) ==
  /\ ~aborted
  /\ end' = set_len_unchecked(View, n).end
  /\ misused' = (misused \/ n > capacity(View))
  /\ called' = NoCall
  /\ tracked' = FALSE
  /\ stack' = <<>>
  /\ UNCHANGED <<inner, aborted, result>>
  /\ UNCHANGED endpoint_vars
  /\ UNCHANGED ip_vars
  /\ UNCHANGED tcp_vars

Resize(n, granted) ==
  /\ ~aborted
  /\ LET r == resize(View, n, granted)
     IN  /\ inner' = r.inner
         /\ end' = r.end
         /\ result' = r.result
  /\ called' = NoCall
  /\ tracked' = FALSE
  /\ stack' = <<>>
  /\ UNCHANGED <<aborted, misused>>
  /\ UNCHANGED endpoint_vars
  /\ UNCHANGED ip_vars
  /\ UNCHANGED tcp_vars

\* an element of the view is written through as_mut_slice
Write(i, value) ==
  /\ ~aborted
  /\ i < end
  /\ IF Partial_as_mut_slice_panics(View)
     THEN aborted' = TRUE /\ UNCHANGED inner
     ELSE /\ inner' = store(inner, splice(deref_mut(inner), 0, end,
                             [Partial_as_mut_slice(View) EXCEPT ![i + 1] = value]))
          /\ UNCHANGED aborted
  /\ tracked' = FALSE
  /\ stack' = <<>>
  /\ called' = NoCall
  /\ UNCHANGED <<end, misused, result>>
  /\ UNCHANGED endpoint_vars
  /\ UNCHANGED ip_vars
  /\ UNCHANGED tcp_vars

PartialNext ==
  \/ \E value \in Values : Push(value)
  \/ \E pos \in Positions, value \in Values : InsertAt(pos, value)
  \/ Pop
  \/ \E pos \in Positions : RemoveAt(pos)
  \/ Inc
  \/ Dec
  \/ \E n \in Positions : SetLenUnchecked(n)
  \/ \E n \in 0..MaxCapacity, granted \in BOOLEAN : Resize(n, granted)
  \/ \E i \in 0..MaxCapacity, value \in Values : Write(i, value)

PartialSpec == PartialInit /\ [][PartialNext]_vars

(***************************************************************************)
(* The ip send path as a state machine: the neighbor cache is filled, the  *)
(* routes table is set up, and packets are sent through nic.tx.            *)
(***************************************************************************)
NeighborCapacities == {1, 2}
RoutesCapacity == 2
BufferLengths == {64, 1024}
Gateway == v4(127, 0, 0, 3)
Destinations == {IP_ADDR_DST, v4(127, 0, 1, 2), v4(10, 0, 0, 1)}
NeighborAddrs == {IP_ADDR_DST, Gateway, v4(127, 0, 1, 2)}
MacOf(address) == IF address = IP_ADDR_DST THEN MAC_ADDR_DST ELSE <<2, 0, 0>> \o address
RouteChoices ==
  {[cidr |-> IpCidr(v4(127, 0, 0, 0), 16), via |-> IP_ADDR_DST],
   [cidr |-> IpCidr(v4(0, 0, 0, 0), 0), via |-> Gateway]}
Inits == {[simple_send_init EXCEPT !.dst_addr = d] : d \in Destinations}
SourceCidr == IpCidr(IP_ADDR_SRC, 24)

IpInit ==
  /\ ports = <<>>
  /\ port_capacity = 1
  /\ states = <<[gen |-> 0, live |-> FALSE, slot |-> DefaultSlot]>>
  /\ issued = {}
  /\ removed = {}
  /\ panicked = FALSE
  /\ inner = empty
  /\ end = 0
  /\ aborted = FALSE
  /\ misused = FALSE
  /\ tracked = FALSE
  /\ stack = <<>>
  /\ result = NoResult
  /\ called = NoCall
  /\ neighbors = <<>>
  /\ neighbor_capacity \in NeighborCapacities
  /\ routes = <<>>
  /\ nic \in BufferLengths
  /\ transmitted = NoTx
  /\ tcbs = <<>>
  /\ now = 0
  /\ emitted = NoSegment

Fill(address, mac) ==
  /\ ~transmitted.panic
  /\ neighbors' = neighbor_fill(neighbors, neighbor_capacity, address, mac)
  /\ UNCHANGED <<neighbor_capacity, routes, nic, transmitted>>
  /\ UNCHANGED endpoint_vars
  /\ UNCHANGED partial_vars
  /\ UNCHANGED tcp_vars

AddRoute(r) ==
  /\ ~transmitted.panic
  /\ Len(routes) < RoutesCapacity
  /\ \A i \in 1..Len(routes) : routes[i] # r
  /\ routes' = routes_insert(routes, r)
  /\ UNCHANGED <<neighbors, neighbor_capacity, nic, transmitted>>
  /\ UNCHANGED endpoint_vars
  /\ UNCHANGED partial_vars
  /\ UNCHANGED tcp_vars

Tx(init) ==
  /\ ~transmitted.panic
  /\ transmitted' = tx(SourceCidr, routes, neighbors, nic, init)
  /\ UNCHANGED <<neighbors, neighbor_capacity, routes, nic>>
  /\ UNCHANGED endpoint_vars
  /\ UNCHANGED partial_vars
  /\ UNCHANGED tcp_vars

IpNext ==
  \/ \E address \in NeighborAddrs : Fill(address, MacOf(address))
  \/ \E r \in RouteChoices : AddRoute(r)
  \/ \E init \in Inits : Tx(init)

IpSpec == IpInit /\ [][IpNext]_vars

(***************************************************************************)
(* The receive path of TCP over the endpoint: a listener, the segments of  *)
(* a peer, the clock and the timer pass of the poll loop.                  *)
(***************************************************************************)
TickMillis == 250
TcpPorts == {80}
PeerSeqs == {TcpSeqNumber(Half - 1, Half - 6), TcpSeqNumber(0, 100)}
DataLens == {0, 100}
\* where a segment starts, relative to recv.next
SeqOffsets == {"next", "after", "before"}

TcpInit ==
  /\ ports = <<>>
  /\ port_capacity = 2
  /\ states = <<[gen |-> 0, live |-> FALSE, slot |-> DefaultSlot]>>
  /\ issued = {}
  /\ removed = {}
  /\ panicked = FALSE
  /\ inner = empty
  /\ end = 0
  /\ aborted = FALSE
  /\ misused = FALSE
  /\ tracked = FALSE
  /\ stack = <<>>
  /\ result = NoResult
  /\ called = NoCall
  /\ neighbors = <<>>
  /\ neighbor_capacity = 1
  /\ routes = <<>>
  /\ nic = 1024
  /\ transmitted = NoTx
  /\ tcbs = <<Connection>>
  /\ now = 0
  /\ emitted = NoSegment

TcpListen(ip, port) ==
  /\ \E hole \in ReserveChoices(states) :
       LET r == listen(ports, states, ip, port, hole)
       IN  /\ ports' = r.ports
           /\ states' = r.states
           /\ issued' = IF r.ret = None THEN issued ELSE issued \cup {r.ret}
           /\ tcbs' = IF r.ret = None THEN tcbs
                      ELSE [tcbs EXCEPT ![r.ret.idx] = Connection]
  /\ emitted' = NoSegment
  /\ UNCHANGED <<port_capacity, removed, panicked, now>>
  /\ UNCHANGED partial_vars
  /\ UNCHANGED ip_vars

\* The segments a peer sends to the connection its tuple is delivered to.
SegmentsFor(tuple) ==
  LET e == find_tuple(ports, states, tuple)
      tcb == IF e.some THEN tcbs[e.key.idx] ELSE Connection
      at(offset) == CASE offset = "next" -> tcb.recv.next
                      [] offset = "after" -> seq_add(tcb.recv.next, 50)
                      [] offset = "before" -> seq_sub(tcb.recv.next, TcpSeqNumber(0, 5))
  IN  {Segment("SYN", seq, TcpSeqNumber_default, 0) : seq \in PeerSeqs}
        \cup {Segment("ACK", at(offset), seq_add(tcb.send.initial_seq, acks), length) :
                offset \in SeqOffsets, acks \in {0, 1}, length \in DataLens}

\* The bytes of sequence space a connection has received.
Received(tcb) == seq_sub(tcb.recv.next, tcb.recv.initial_seq)[2]

TcpArrive(tuple, seg) ==
  /\ LET e == find_tuple(ports, states, tuple)
     IN  (e.some /\ seg.len > 0) =>
           /\ Received(tcbs[e.key.idx]) + seg.len <= MaxBytes
           /\ now + tcbs[e.key.idx].ack_timeout + TickMillis <= MaxTime
  /\ LET r == tcp_arrives(ports, states, tcbs, tuple, seg, now)
     IN  /\ ports' = r.ports
         /\ states' = r.states
         /\ tcbs' = r.tcbs
         /\ emitted' = r.emitted
  /\ UNCHANGED <<port_capacity, issued, removed, panicked, now>>
  /\ UNCHANGED partial_vars
  /\ UNCHANGED ip_vars

Tick ==
  /\ now + TickMillis <= MaxTime
  /\ now' = now + TickMillis
  /\ emitted' = NoSegment
  /\ UNCHANGED <<tcbs>>
  /\ UNCHANGED endpoint_vars
  /\ UNCHANGED partial_vars
  /\ UNCHANGED ip_vars

TimerPass(key) ==
  /\ SlotLive(states, key)
  /\ LET r == timer_pass(key.idx, tcbs[key.idx], now)
     IN  /\ tcbs' = [tcbs EXCEPT ![key.idx] = r.tcb]
         /\ emitted' = r.emitted
  /\ UNCHANGED <<now>>
  /\ UNCHANGED endpoint_vars
  /\ UNCHANGED partial_vars
  /\ UNCHANGED ip_vars

TcpRemove(key) ==
  /\ SlotLive(states, key)
  /\ Freed(states, Len(states)) < MaxRemoves
  /\ LET r == remove(ports, states, key)
     IN  /\ ports' = r.ports
         /\ states' = r.states
  /\ removed' = IF key \in issued THEN removed \cup {key} ELSE removed
  /\ emitted' = NoSegment
  /\ UNCHANGED <<port_capacity, issued, panicked, tcbs, now>>
  /\ UNCHANGED partial_vars
  /\ UNCHANGED ip_vars

TcpNext ==
  \/ \E ip \in LocalAddrs, port \in TcpPorts : TcpListen(ip, port)
  \/ \E tuple \in SegmentTuples : \E seg \in SegmentsFor(tuple) : TcpArrive(tuple, seg)
  \/ Tick
  \/ \E key \in Keys : TimerPass(key)
  \/ \E key \in Keys : TcpRemove(key)

TcpSpec == TcpInit /\ [][TcpNext]_vars

\* The poll loop keeps making passes and the clock keeps running.
TcpLiveSpec ==
  /\ TcpSpec
  /\ WF_vars(Tick)
  /\ \A key \in Keys : WF_vars(TimerPass(key))

(***************************************************************************)
(* Helpers of the properties.                                              *)
(***************************************************************************)
LiveKeys == {k \in Keys : SlotLive(states, k)}

IsListenTuple(t) == t.remote = Unspecified /\ t.remote_port = 0

ListenerOf(t) == ListenTuple(t.local, t.local_port)

\* what an arriving segment without RST draws from the fallback path
Unanswered(flags) == IF flags = "RST" THEN "none" ELSE "RST"

C2_IssuedKeysResolve ==
  \A k \in issued \ removed :
    /\ get(states, k).some
    /\ get_mut(states, k).some
    /\ entry(states, k).some
    /\ entry(states, k).key = k

\* a key survives the removal of another connection and the reuse of its slot
C2_Witness ==
  \E k \in issued \ removed, r \in removed, n \in issued \ removed :
    /\ k.idx # r.idx
    /\ n.idx = r.idx

(***************************************************************************)
(* C3: after remove(k), get, get_mut and entry of k are absent and         *)
(* remove(k) does nothing, also when the slot of k is in use again; a key  *)
(* handed out later is never k.                                            *)
(***************************************************************************)
C3_RemovedKeysStayDead ==
  \A k \in removed :
    /\ ~get(states, k).some
    /\ ~get_mut(states, k).some
    /\ ~entry(states, k).some
    /\ remove(ports, states, k).ports = ports
    /\ remove(ports, states, k).states = states
    /\ k \notin LiveKeys

\* the slot of a removed key is live again under another key
C3_Witness ==
  \E k \in removed, n \in LiveKeys : n.idx = k.idx /\ n # k

C5_TakenTupleIsRefused ==
  /\ \A i, j \in 1..Len(ports) : ports[i].key = ports[j].key => i = j
  /\ ~panicked =>
       \A hole \in ReserveChoices(states) :
         /\ \A tuple \in FourTuple :
              MapContains(ports, tuple)
                => open(ports, states, tuple, hole)
                     = [ports |-> ports, states |-> states, ret |-> None]
         /\ \A ip \in LocalAddrs, port \in LocalPorts :
              MapContains(ports, ListenTuple(ip, port))
                => listen(ports, states, ip, port, hole)
                     = [ports |-> ports, states |-> states, ret |-> None]

\* a listener is registered while table and slotmap still have room
C5_Witness ==
  /\ ~panicked
  /\ Len(ports) < port_capacity
  /\ \E i \in DOMAIN states : ~states[i].live
  /\ \E ip \in LocalAddrs, port \in LocalPorts :
       MapContains(ports, ListenTuple(ip, port))

C7_OpenResult ==
  ~panicked =>
    \A tuple \in FourTuple, hole \in ReserveChoices(states) :
      LET r == open(ports, states, tuple, hole)
          slot == get(r.states, r.ret)
      IN  r.ret # None =>
            /\ slot.some
            /\ slot.slot.addr = tuple
            /\ slot.slot.connection = [current |-> "Closed", previous |-> "Closed"]
            /\ key_from_tuple(r.ports, tuple) = r.ret

C7_ClosedUntilSyn ==
  \A k \in Keys :
    (/\ get(states, k).some
     /\ get(states, k).slot.connection.current = "Closed"
     /\ get(states, k).slot.connection.previous = "Closed"
     /\ get(states', k).some
     /\ get(states', k).slot.connection.current # "Closed")
      => /\ SendSyn(k)
         /\ get(states', k).slot.connection.current = "SynSent"

RemovesEstablished(key) ==
  /\ SlotLive(states, key)
  /\ ~SlotLive(states', key)
  /\ states[key.idx].slot.connection.current = "Established"
  /\ states[key.idx].slot.addr \in SegmentTuples

C9_ResetAfterRemove ==
  \A key \in Keys, flags \in Flags \ {"RST"} :
    RemovesEstablished(key) =>
      LET a == arrives(ports', states', states[key.idx].slot.addr, flags)
      IN  /\ ~find_tuple(ports', states', states[key.idx].slot.addr).some
          /\ a.found = None
          /\ a.emitted = "RST"

\* C9 as claimed: every remove of an established connection ends in a reset
C9_SegmentAfterRemoveIsReset == [][C9_ResetAfterRemove]_vars

(***************************************************************************)
(* C9 amended: after remove(key) of an established connection with tuple   *)
(* T, a segment on T is never delivered to key; when no listener is        *)
(* registered on (T.local, 0.0.0.0, T.local_port, 0) the lookup finds      *)
(* nothing and a segment without RST is answered by a RST, with no change  *)
(* of the endpoint; when there is such a listener the lookup finds the     *)
(* listener and the segment is delivered to it.                            *)
(***************************************************************************)
C9_DeliveryAfterRemove ==
  \A key \in Keys, flags \in Flags :
    RemovesEstablished(key) =>
      LET T == states[key.idx].slot.addr
          found == find_tuple(ports', states', T)
          a == arrives(ports', states', T, flags)
      IN  /\ a.found # key
          /\ ~MapContains(ports', T)
          /\ ~MapContains(ports', ListenerOf(T))
               => /\ ~found.some
                  /\ a.found = None
                  /\ a.emitted = Unanswered(flags)
                  /\ a.ports = ports'
                  /\ a.states = states'
          /\ MapContains(ports', ListenerOf(T))
               => /\ found.some
                  /\ found.key = MapGet(ports', ListenerOf(T))
                  /\ found.slot.addr = ListenerOf(T)
                  /\ a.found = found.key

\* C9 amended: reset without a listener, delivery to the listener with one
C9_SegmentAfterRemove == [][C9_DeliveryAfterRemove]_vars

\* an established connection was removed while its listener is registered
C9_Witness ==
  \E i \in DOMAIN states :
    /\ ~states[i].live
    /\ states[i].gen > 0
    /\ states[i].slot.connection = [current |-> "Closed", previous |-> "Established"]
    /\ states[i].slot.addr \in SegmentTuples
    /\ ~MapContains(ports, states[i].slot.addr)
    /\ MapContains(ports, ListenerOf(states[i].slot.addr))

PortsInUse(ip) ==
  {ports[i].key.local_port : i \in {j \in 1..Len(ports) : ports[j].key.local = ip}}

C11_SourcePortIsEphemeral ==
  \A ip \in LocalAddrs :
    LET r == source_port(ports, ip)
    IN  IF (49152..65535) \subseteq PortsInUse(ip)
        THEN ~r.some
        ELSE /\ r.some
             /\ r.port \in 49152..65535
             /\ r.port \notin PortsInUse(ip)

EndWithinCapacity ==
  /\ end <= capacity(View)
  /\ ~Partial_as_slice_panics(View)
  /\ Len(Partial_as_slice(View)) = len(View)

C15_EndWithinCapacityAlways == EndWithinCapacity

\* C15, amended: the same holds as long as inc was only called with
\* end < capacity, dec with end > 0 and set_len_unchecked(n) with
\* n <= capacity; the other methods keep it by themselves.
C15_EndWithinCapacity == ~misused => EndWithinCapacity

\* a view filled to the capacity of its container by more than push and pop
C15_Witness ==
  /\ ~misused
  /\ ~tracked
  /\ ~aborted
  /\ end = MaxCapacity
  /\ capacity(View) = MaxCapacity
  /\ \A i \in 1..MaxCapacity : deref(inner)[i] \in Values

(***************************************************************************)
(* C16: on a view with end <= capacity, push, pop, insert_at(pos) and      *)
(* remove_at(pos) do not panic for any pos, and a call that cannot be      *)
(* carried out returns no element and leaves end and the contents as they  *)
(* were.                                                                   *)
(***************************************************************************)
Refuses(r) ==
  /\ ~r.panic
  /\ ~r.ret.some
  /\ r.end = end
  /\ r.inner = inner

C16_NeverPanics ==
  (~aborted /\ end <= capacity(View)) =>
    /\ ~push(View).panic
    /\ ~pop(View).panic
    /\ end = capacity(View) => Refuses(push(View))
    /\ end = 0 => Refuses(pop(View))
    /\ \A pos \in Positions :
         /\ ~insert_at(View, pos).panic
         /\ ~remove_at(View, pos).panic
         /\ (end = capacity(View) \/ pos > end) => Refuses(insert_at(View, pos))
         /\ pos >= end => Refuses(remove_at(View, pos))

(***************************************************************************)
(* C17: a view made by new and used through push and pop only is a stack:  *)
(* while there is room a push succeeds, the view shows the values pushed   *)
(* in their order, and a pop returns the value pushed last.                *)
(***************************************************************************)
C17_StackBehaviour ==
  tracked =>
    /\ len(View) = Len(stack)
    /\ ~Partial_as_slice_panics(View)
    /\ Partial_as_slice(View) = stack
    /\ Len(stack) < capacity(View) =>
         /\ push(View).ret.some
         /\ ~push(View).panic
         /\ push(View).end = Len(stack) + 1
         /\ push(View).ret.at = Len(stack)
    /\ stack # <<>> =>
         /\ pop(View).ret.some
         /\ ~pop(View).panic
         /\ read(pop(View), pop(View).ret) = stack[Len(stack)]
         /\ pop(View).end = Len(stack) - 1
         /\ Partial_as_slice(pop(View)) = SubSeq(stack, 1, Len(stack) - 1)

\* a view that was filled by pushes and emptied again by pops
C17_Witness ==
  /\ tracked
  /\ stack = <<>>
  /\ end = 0
  /\ capacity(View) = MaxCapacity
  /\ \A i \in 1..MaxCapacity : deref(inner)[i] \in Values

(***************************************************************************)
(* C18: resize(n) with n at most the length of the container sets end to n *)
(* and leaves the container alone; with a larger n it asks the container   *)
(* to resize and sets end to n when that succeeds; when the container      *)
(* denies, the call returns BadSize and end is unchanged.                  *)
(***************************************************************************)
C18_ResizeResult ==
  ~aborted =>
    \A n \in 0..(MaxCapacity + 1), granted \in BOOLEAN :
      LET r == resize(View, n, granted)
          grown == payload_resize(inner, n, granted)
      IN  /\ n <= capacity(View) =>
               /\ r.result = Ok
               /\ r.end = n
               /\ r.inner = inner
          /\ (n > capacity(View) /\ grown.result.ok) =>
               /\ r.result = Ok
               /\ r.end = n
               /\ r.inner = grown.inner
               /\ n <= Len(deref(r.inner))
          /\ (n > capacity(View) /\ ~grown.result.ok) =>
               /\ r.result = Err(PayloadError_BadSize)
               /\ Error_from_PayloadError(r.result.err) = "Error::BadSize"
               /\ r.end = end
               /\ r.inner = inner

C18_DeniedKeepsEnd ==
  (result' # result /\ ~result'.ok) => (end' = end /\ inner' = inner)

C18_Resize == [](C18_ResizeResult) /\ [][C18_DeniedKeepsEnd]_vars

\* a view whose latest resize was denied while it had elements in use
C18_Witness ==
  /\ result = Err(PayloadError_BadSize)
  /\ end > 0
  /\ ~misused
  /\ ~aborted

(***************************************************************************)
(* C19: both implementations of Slice show One(t) as the sequence of the   *)
(* one element t, Many(v) as v and Borrowed(s) as s; From of no value is   *)
(* the empty sequence and From of a value is that one element; the read    *)
(* and the mutable view are the same sequence, and a write through the     *)
(* mutable view changes neither the mode nor the length.                   *)
(***************************************************************************)
Elements == {0} \cup Values
Vectors == {<<>>} \cup {<<a>> : a \in Elements} \cup {<<a, b>> : a, b \in Elements}

SameSequence(s, sequence) ==
  /\ deref(s) = sequence
  /\ deref_mut(s) = sequence
  /\ as_slice(s) = sequence
  /\ as_mut_slice(s) = sequence
  /\ Slice_deref(s) = sequence
  /\ Slice_deref_mut(s) = sequence

C19_Conversions ==
  /\ \A t \in Elements :
       /\ SameSequence(One(t), <<t>>)
       /\ Len(deref(One(t))) = 1
       /\ Len(as_slice(One(t))) = 1
       /\ SameSequence(from_T(t), <<t>>)
       /\ SameSequence(Slice_from_T(t), <<t>>)
       /\ SameSequence(from_Option(SomeT(t)), <<t>>)
       /\ SameSequence(Slice_from_Option(SomeT(t)), <<t>>)
  /\ SameSequence(from_Option(NoneT), <<>>)
  /\ SameSequence(Slice_from_Option(NoneT), <<>>)
  /\ SameSequence(empty, <<>>)
  /\ \A v \in Vectors :
       /\ SameSequence(Many(v), v)
       /\ SameSequence(Borrowed(v), v)
       /\ SameSequence(from_Vec(v), v)
       /\ SameSequence(Slice_from_Vec(v), v)
       /\ SameSequence(from_slice(v), v)
       /\ SameSequence(Slice_from_slice(v), v)

C19_Views ==
  /\ SameSequence(inner, deref(inner))
  /\ inner.mode = "One" => deref(inner) = <<inner.one>>
  /\ inner.mode = "Many" => deref(inner) = inner.many
  /\ inner.mode = "Borrowed" => deref(inner) = inner.borrowed
  /\ \A i \in 1..Len(deref_mut(inner)), value \in Values :
       LET written == [deref_mut(inner) EXCEPT ![i] = value]
           a == store(inner, written)
           b == Slice_store(inner, [as_mut_slice(inner) EXCEPT ![i] = value])
       IN  /\ a = b
           /\ a.mode = inner.mode
           /\ SameSequence(a, written)
           /\ Len(deref(a)) = Len(deref(inner))

C19_ModeIsKept == inner'.mode = inner.mode

C19_SliceModes == [](C19_Conversions /\ C19_Views) /\ [][C19_ModeIsKept]_vars

\* a vector whose every element was written through the mutable view
C19_Witness ==
  /\ inner.mode = "Many"
  /\ Len(inner.many) = MaxCapacity
  /\ \A i \in 1..MaxCapacity : inner.many[i] \in Values
  /\ ~aborted

C26_InsertAtRotates ==
  ~aborted =>
    \A pos \in Positions :
      (pos <= end /\ end < capacity(View)) =>
        LET r == insert_at(View, pos)
            old == deref(inner)
            new == deref(r.inner)
        IN  /\ ~r.panic
            /\ r.ret.some
            /\ r.end = end + 1
            /\ r.inner.mode = inner.mode
            /\ Len(new) = Len(old)
            /\ \A i \in 1..pos : new[i] = old[i]
            /\ \A i \in (pos + 1)..end : new[i + 1] = old[i]
            /\ r.ret.at = pos
            /\ read(r, r.ret) = old[end + 1]
            /\ \A i \in (end + 2)..Len(old) : new[i] = old[i]

\* insert_at gave an element in front of two elements of the view
C26_Witness ==
  /\ called.method = "insert_at"
  /\ called.pos + 2 < end
  /\ ~misused
  /\ ~aborted

(***************************************************************************)
(* C27: remove_at(pos) with pos < end <= capacity succeeds and takes one   *)
(* from end; the elements below pos stay, those of (pos, end) move one     *)
(* index down in their order, the element returned is the removed one, now *)
(* at the index of the new end, and the container from the old end on is   *)
(* unchanged.                                                              *)
(***************************************************************************)
C27_RemoveAtRotates ==
  ~aborted =>
    \A pos \in Positions :
      (pos < end /\ end <= capacity(View)) =>
        LET r == remove_at(View, pos)
            old == deref(inner)
            new == deref(r.inner)
        IN  /\ ~r.panic
            /\ r.ret.some
            /\ r.end = end - 1
            /\ r.inner.mode = inner.mode
            /\ Len(new) = Len(old)
            /\ \A i \in 1..pos : new[i] = old[i]
            /\ \A i \in (pos + 2)..end : new[i - 1] = old[i]
            /\ r.ret.at = r.end
            /\ read(r, r.ret) = old[pos + 1]
            /\ new[end] = old[pos + 1]
            /\ \A i \in (end + 1)..Len(old) : new[i] = old[i]

\* remove_at took an element from in front of two elements that stay
C27_Witness ==
  /\ called.method = "remove_at"
  /\ called.pos + 2 <= end
  /\ ~misused
  /\ ~aborted

(***************************************************************************)
(* C28: get(i) and get_mut(i) give an element exactly when the index i of  *)
(* the view is valid, that is when i < end, so that no element of the      *)
(* container at or behind end is handed out.                               *)
(***************************************************************************)
C28_GetStaysInView ==
  (~aborted /\ ~misused) =>
    \A i \in Positions :
      /\ Partial_get(View, i).some <=> ~Partial_index_panics(View, i)
      /\ Partial_get_mut(View, i).some <=> ~Partial_index_panics(View, i)
      /\ Partial_get(View, i).some => i < end
      /\ Partial_get_mut(View, i).some => i < end

(***************************************************************************)
(* C29: while no call has panicked, every live slot is the value of        *)
(* exactly one entry of the port table and there are as many live slots as *)
(* entries, for each capacity of the port table and of the slotmap; a      *)
(* create_state that fails leaves no slot reserved.                        *)
(***************************************************************************)
LiveSlots(s) == {i \in DOMAIN s : s[i].live}
EntriesOf(p, s, i) == {j \in 1..Len(p) : p[j].value = [idx |-> i, gen |-> s[i].gen]}

IsnTimes == 0..1

C25_IsnOfTuple ==
  \A isn \in IsnKeys, t \in IsnTimes :
    /\ \A id \in FourTuple :
         /\ initial_seq_num(isn, id, t) = seq_add(SipHash(isn, id), IsnTicksPerMilli * t)
         /\ initial_seq_num(isn, id, t + 1)
              = seq_add(initial_seq_num(isn, id, t), IsnTicksPerMilli)
         /\ seq_sub(initial_seq_num(isn, id, t + 1), initial_seq_num(isn, id, t))
              = TcpSeqNumber(0, IsnTicksPerMilli)
         /\ seq_lt(initial_seq_num(isn, id, t), initial_seq_num(isn, id, t + 1))
    /\ ~panicked =>
         \A key \in LiveKeys :
           LET old == states[key.idx].slot.addr
           IN  /\ EntryKey_initial_seq_num(isn, states, key, t)
                    = initial_seq_num(isn, old, t)
               /\ \A new \in FourTuple :
                    (~MapContains(ports, new) /\ new # old) =>
                      LET r == set_four_tuple(ports, states, key, new)
                      IN  /\ EntryKey_initial_seq_num(isn, r.states, key, t)
                               = initial_seq_num(isn, new, t)
                          /\ EntryKey_initial_seq_num(isn, r.states, key, t)
                               # EntryKey_initial_seq_num(isn, states, key, t)

\* a connection under the tuple of a peer that a SYN to its listener gave it,
\* its number wrapping around within the times looked at
C25_Witness ==
  /\ ~panicked
  /\ \E key \in LiveKeys :
       /\ states[key.idx].slot.connection.current = "SynReceived"
       /\ states[key.idx].slot.connection.previous = "Listen"
       /\ states[key.idx].slot.addr.remote_port # 0
       /\ \E isn \in IsnKeys, t \in IsnTimes :
            /\ EntryKey_initial_seq_num(isn, states, key, t)[1] = Half - 1
            /\ EntryKey_initial_seq_num(isn, states, key, t + 1)[1] = 0

(***************************************************************************)
(* C22: passive open.  With a listener for (L, p) and no connection for    *)
(* the tuple, a SYN with seq S from R:q gives a connection for the tuple   *)
(* (L, R, p, q) in SynReceived with recv.next = S + 1 and emits one        *)
(* SYN+ACK with ack = S + 1 and seq = the initial sequence number of that  *)
(* tuple; an ACK with ack = that number + 1 then moves it to Established   *)
(* and emits nothing; any other segment to the listener changes nothing;   *)
(* no step takes a connection from Listen to Established.                  *)
(***************************************************************************)
CurrentOf(s, i) == s[i].slot.connection.current

C22_SegmentsOfPassiveOpen ==
  \A tuple \in SegmentTuples : \A seg \in SegmentsFor(tuple) :
    LET lis == entry_from_tuple(ports, states, ListenerOf(tuple))
        con == entry_from_tuple(ports, states, tuple)
        r == tcp_arrives(ports, states, tcbs, tuple, seg, now)
        after == entry_from_tuple(r.ports, r.states, tuple)
    IN  /\ (~con.some /\ lis.some /\ lis.slot.connection.current = "Listen"
              /\ seg.flags = "SYN") =>
              /\ after.some
              /\ after.key = lis.key
              /\ after.slot.addr = tuple
              /\ after.slot.connection.current = "SynReceived"
              /\ r.tcbs[after.key.idx].recv.next = seq_add(seg.seq, 1)
              /\ r.tcbs[after.key.idx].send.initial_seq
                   = initial_seq_num(isn_generator, tuple, now)
              /\ r.emitted = Emit(after.key.idx, "SYNACK",
                                  initial_seq_num(isn_generator, tuple, now),
                                  seq_add(seg.seq, 1))
        /\ (~con.some /\ lis.some /\ lis.slot.connection.current = "Listen"
              /\ seg.flags # "SYN") =>
              /\ r.ports = ports
              /\ r.states = states
              /\ r.tcbs = tcbs
              /\ r.emitted = NoSegment
        /\ (con.some /\ con.slot.connection.current = "SynReceived"
              /\ seg.flags = "ACK"
              /\ seg.ack = seq_add(tcbs[con.key.idx].send.initial_seq, 1)) =>
              /\ after.some
              /\ after.key = con.key
              /\ after.slot.connection.current = "Established"
              /\ after.slot.connection.previous = "SynReceived"
              /\ r.tcbs[con.key.idx].recv.next = tcbs[con.key.idx].recv.next
              /\ r.emitted = NoSegment

C22_ThroughSynReceived ==
  \A i \in DOMAIN states :
    (states[i].live /\ CurrentOf(states, i) = "Listen")
      => CurrentOf(states', i) # "Established"

C22_PassiveOpen ==
  /\ [](C22_SegmentsOfPassiveOpen)
  /\ [](\A i \in DOMAIN states :
          (states[i].live /\ CurrentOf(states, i) = "Established")
            => states[i].slot.connection.previous = "SynReceived")
  /\ [][C22_ThroughSynReceived]_vars

\* the ACK of the SYN+ACK has arrived: Established, nothing emitted, the
\* numbers those of the handshake
C22_Witness ==
  \E key \in LiveKeys :
    /\ CurrentOf(states, key.idx) = "Established"
    /\ states[key.idx].slot.addr \in SegmentTuples
    /\ tcbs[key.idx].recv.next = seq_add(tcbs[key.idx].recv.initial_seq, 1)
    /\ tcbs[key.idx].send.unacked = seq_add(tcbs[key.idx].send.initial_seq, 1)
    /\ tcbs[key.idx].send.initial_seq
         = initial_seq_num(isn_generator, states[key.idx].slot.addr, TickMillis)
    /\ now = TickMillis
    /\ emitted = NoSegment

(***************************************************************************)
(* C23: the delayed acknowledgement.  In Established a segment with a      *)
(* valid ack and len >= 1 bytes at seq = recv.next advances recv.next by   *)
(* len; if the ack_timer was not armed it is armed at now + 500 ms and     *)
(* nothing is emitted, and an armed timer is never postponed.  A timer     *)
(* pass at or after the deadline emits one ACK with the current recv.next  *)
(* and disarms the timer, a pass before the deadline emits nothing.  An    *)
(* armed timer of a connection is disarmed only together with such an ACK, *)
(* and every armed timer is eventually disarmed unless the connection is   *)
(* removed.                                                                *)
(***************************************************************************)
AckTimeoutMillis == 500

Armed(key) == SlotLive(states, key) /\ tcbs[key.idx].ack_timer.armed

C23_InOrderData ==
  \A tuple \in SegmentTuples : \A seg \in SegmentsFor(tuple) :
    LET con == entry_from_tuple(ports, states, tuple)
        tcb == tcbs[con.key.idx]
        r == tcp_arrives(ports, states, tcbs, tuple, seg, now)
        got == r.tcbs[con.key.idx]
    IN  (con.some /\ con.slot.connection.current = "Established"
           /\ seg.flags = "ACK" /\ ack_valid(tcb, seg)
           /\ seg.len >= 1 /\ seg.seq = tcb.recv.next) =>
          /\ got.recv.next = seq_add(tcb.recv.next, seg.len)
          /\ r.states = states
          /\ ~tcb.ack_timer.armed =>
               /\ got.ack_timer = At(now + AckTimeoutMillis)
               /\ r.emitted = NoSegment
          /\ tcb.ack_timer.armed => got.ack_timer \in {tcb.ack_timer, Never}

C23_TimerPass ==
  \A key \in LiveKeys :
    LET tcb == tcbs[key.idx]
        r == timer_pass(key.idx, tcb, now)
    IN  /\ (tcb.ack_timer.armed /\ tcb.ack_timer.at <= now) =>
             /\ r.emitted.conn = key.idx
             /\ r.emitted.segment.flags = "ACK"
             /\ r.emitted.segment.ack = tcb.recv.next
             /\ r.emitted.segment.len = 0
             /\ r.tcb.recv.next = tcb.recv.next
             /\ r.tcb.ack_timer = Never
             /\ timer_pass(key.idx, r.tcb, now).emitted = NoSegment
        /\ (~tcb.ack_timer.armed \/ now < tcb.ack_timer.at) =>
             /\ r.emitted = NoSegment
             /\ r.tcb = tcb

C23_DisarmedByAck ==
  \A key \in Keys :
    (Armed(key) /\ SlotLive(states', key) /\ ~tcbs'[key.idx].ack_timer.armed) =>
      /\ emitted'.conn = key.idx
      /\ emitted'.segment.flags = "ACK"
      /\ emitted'.segment.ack = tcbs'[key.idx].recv.next

C23_DelayedAck ==
  /\ [](C23_InOrderData /\ C23_TimerPass)
  /\ [][C23_DisarmedByAck]_vars
  /\ \A key \in Keys : Armed(key) ~> ~Armed(key)

\* the timer pass at the deadline has acknowledged the 100 bytes that
\* arrived in order across the wrap of the sequence numbers
C23_Witness ==
  \E key \in LiveKeys :
    /\ CurrentOf(states, key.idx) = "Established"
    /\ ~tcbs[key.idx].ack_timer.armed
    /\ now >= AckTimeoutMillis
    /\ tcbs[key.idx].recv.initial_seq[1] = Half - 1
    /\ tcbs[key.idx].recv.next = seq_add(tcbs[key.idx].recv.initial_seq, 101)
    /\ tcbs[key.idx].recv.next[1] = 0
    /\ emitted = ack_all(key.idx, tcbs[key.idx])

C31_RemoveIsIdempotent ==
  \A key \in Keys :
    LET r == remove(ports, states, key)
        again == remove(r.ports, r.states, key)
    IN  /\ ~SlotLive(states, key) => (r.ports = ports /\ r.states = states)
        /\ key \in (Keys \ issued) \cup removed =>
             (r.ports = ports /\ r.states = states)
        /\ ~SlotLive(r.states, key)
        /\ again.ports = r.ports
        /\ again.states = r.states

\* the slot of a removed key is in use again under a later key and mapped
\* in the port table, and a key of that slot was never handed out
C31_Witness ==
  \E k \in removed, n \in Keys \ issued :
    /\ states[k.idx].live
    /\ states[k.idx].gen > k.gen
    /\ MapContains(ports, states[k.idx].slot.addr)
    /\ n.idx = k.idx
    /\ n.gen > states[k.idx].gen

(***************************************************************************)
(* C32: set_four_tuple is all or nothing.  For a connection mapped under   *)
(* the tuple of its slot and any new tuple, after the call the port table  *)
(* maps the new tuple to the connection and the slot stores the new tuple, *)
(* or the port table maps the old tuple to it and the slot stores the old  *)
(* one; this also when the call fails because the new tuple is taken.  No  *)
(* live connection is without its entry in the port table.                 *)
(***************************************************************************)
C32_SetFourTupleAllOrNothing ==
  /\ \A key \in LiveKeys : MapGet(ports, states[key.idx].slot.addr) = key
  /\ \A key \in LiveKeys, new \in FourTuple :
       LET old == states[key.idx].slot.addr
           r == set_four_tuple(ports, states, key, new)
       IN  MapGet(ports, old) = key =>
             \/ /\ MapGet(r.ports, new) = key
                /\ r.states[key.idx].slot.addr = new
             \/ /\ MapGet(r.ports, old) = key
                /\ r.states[key.idx].slot.addr = old

(***************************************************************************)
(* C33: for a view with end < capacity and pos <= end, insert_at(pos)      *)
(* followed by remove_at(pos) succeeds twice and gives back the old end    *)
(* and the old backing container at every index, those from end on         *)
(* included; each of insert_at(pos) and remove_at(pos), for any pos and    *)
(* whatever it returns, leaves in the backing container the elements it    *)
(* held, each as often as before.                                          *)
(***************************************************************************)
Occurrences(sequence, value) ==
  Cardinality({i \in 1..Len(sequence) : sequence[i] = value})

IsPermutation(a, b) ==
  /\ Len(a) = Len(b)
  /\ \A value \in Elements : Occurrences(a, value) = Occurrences(b, value)

C33_InsertThenRemove ==
  ~aborted =>
    \A pos \in Positions :
      LET inserted == insert_at(View, pos)
          removed_again == remove_at([inner |-> inserted.inner, end |-> inserted.end], pos)
      IN  /\ (pos <= end /\ end < capacity(View)) =>
                /\ ~inserted.panic
                /\ inserted.ret.some
                /\ inserted.end = end + 1
                /\ ~removed_again.panic
                /\ removed_again.ret.some
                /\ removed_again.end = end
                /\ removed_again.inner = inner
                /\ \A i \in 1..capacity(View) :
                     deref(removed_again.inner)[i] = deref(inner)[i]
          /\ IsPermutation(deref(inserted.inner), deref(inner))
          /\ inserted.inner.mode = inner.mode
          /\ IsPermutation(deref(remove_at(View, pos).inner), deref(inner))
          /\ remove_at(View, pos).inner.mode = inner.mode

\* remove_at has moved elements of a view that has room for an insert_at at
\* the same position, over a container of three different elements
C33_Witness ==
  /\ called.method = "remove_at"
  /\ called.pos < end
  /\ end < capacity(View)
  /\ ~aborted
  /\ \A value \in Elements : Occurrences(deref(inner), value) = 1
  /\ insert_at(View, called.pos).ret.some
  /\ deref(insert_at(View, called.pos).inner) # deref(inner)

====
